---------------------------- MODULE Spec2Model ----------------------------
(***************************************************************************)
(* The authoritative game server of text_among_us (src/game_server.py):    *)
(* GameState, the connection handlers, the action handlers registered on    *)
(* the EventManager, the broadcast with its nested disconnects, and the     *)
(* discussion / voting timer tasks.                                         *)
(*                                                                         *)
(* Granularity.  A coroutine runs without interruption until it awaits a   *)
(* future that is not ready.  asyncio.sleep always suspends; awaiting the   *)
(* next inbound frame suspends; websocket.send completes without           *)
(* suspending unless the write buffer is full.  So one action of the model  *)
(* is one handler run from its resumption to its next sleep / receive:      *)
(* a whole message handler (with every broadcast, nested disconnect and the *)
(* `finally` clause it runs into), or one leg of a timer task.  Sends that  *)
(* the code hands to asyncio.create_task (no effect on GameState) run when  *)
(* the handler that created them has finished its run.                      *)
(*                                                                         *)
(* Handlers are written as functions on a record S of the GameState fields  *)
(* plus `out` (the frames handed to websocket.send so far) and `exc` (an    *)
(* exception is propagating), so that the sequential code, its early        *)
(* returns and its uncaught KeyError / TypeError paths compose as in the    *)
(* source.  The frames a handler sends are not part of the state: claims    *)
(* about replies and broadcasts are stated on the handler's result in every *)
(* reachable state, for every input.                                        *)
(***************************************************************************)
EXTENDS Integers, Sequences, FiniteSets, TLC

\* ------------------------------------------------------------ bounds ----
\* How many entries of PLAYER_NAMES (21 in the source) the model keeps.
NumNames == 3
\* Connections accepted over a run.
MaxConns == 4
\* Timer tasks (run_discussion_timer) alive at the same time.
MaxTimers == 2
\* Connections whose peer has closed them over a run.
MaxCloses == 1
\* Inbound frames over a run that change GameState or end a connection
\* (a frame that is only answered does not count).
MaxFrames == 4

\* --------------------------------------------------------- constants ----
min_players == 3
max_emergency_meetings == 1
\* impostor_ratio = 0.2 as a fraction: int(n * 0.2) = n \div 5 for n <= 21
impostor_ratio_den == 5

AllNames == <<"Alice", "Bob", "Charlie", "Dave", "Eve", "Mallory", "Trent",
              "Frank", "Grace", "Henry", "Ivy", "Jack", "Kelly", "Luna",
              "Max", "Nina", "Oscar", "Penny", "Quinn", "Ruby", "Sam">>

PLAYER_NAMES == SubSeq(AllNames, 1, NumNames)

NameSet == {PLAYER_NAMES[i] : i \in 1..Len(PLAYER_NAMES)}

None == "None"

map_layout ==
  [r \in {"cafeteria", "upper_engine", "reactor", "security", "electrical",
          "lower_engine", "engine_room", "storage", "medbay"} |->
     CASE r = "cafeteria"    -> {"upper_engine", "medbay", "storage"}
       [] r = "upper_engine" -> {"cafeteria", "reactor", "engine_room"}
       [] r = "reactor"      -> {"upper_engine", "security"}
       [] r = "security"     -> {"reactor", "engine_room", "electrical"}
       [] r = "electrical"   -> {"security", "lower_engine"}
       [] r = "lower_engine" -> {"electrical", "engine_room", "storage"}
       [] r = "engine_room"  -> {"upper_engine", "security", "lower_engine", "medbay"}
       [] r = "storage"      -> {"cafeteria", "lower_engine"}
       [] r = "medbay"       -> {"cafeteria", "engine_room"}]

\* self.state.map_layout.get(location, [])
adjacent(room) == IF room \in DOMAIN map_layout THEN map_layout[room] ELSE {}

\* ------------------------------------------------ inputs of the actions -
\* Destinations a client sends: two rooms of the map that are adjacent to
\* each other, and one that is adjacent to neither.
Dests == {"cafeteria", "medbay", "reactor"}
\* Kill targets a client sends: any pool name, in the roster or not.
Targets == NameSet
\* Vote targets a client sends: a pool name, in the roster or not, and "skip".
VoteTargets == {"Bob", "skip"}
TaskNames == {"Task 1"}
\* Inbound frames that are not a well-formed action.
BadKinds == {"bad_json", "no_action", "unknown_action", "not_object"}

\* ------------------------------------------------------------- state ----
VARIABLES
  players,       \* GameState.players: player id -> Player
  bodies,        \* GameState.bodies: dead player id -> room
  phase,         \* GameState.phase
  votes,         \* GameState.votes: voter id -> target
  game_started,  \* GameState.game_started
  conns,         \* the handle_connection coroutines: <<[pid, st]>>
  timers,        \* the live run_discussion_timer tasks, oldest first
  frames         \* inbound frames (close frames too) that had an effect

vars == <<players, bodies, phase, votes, game_started, conns, timers, frames>>

EmptyMap == [x \in {} |-> None]

Range(f) == {f[x] : x \in DOMAIN f}

Without(f, k) == [x \in DOMAIN f \ {k} |-> f[x]]

Put(f, k, v) == [x \in DOMAIN f \cup {k} |-> IF x = k THEN v ELSE f[x]]

\* Player.tasks is Optional[Dict[str, Task]]: None is written as the map
\* NoTasks, which is no dict of tasks (its key is no task name)
NoTasks == [n \in {None} |-> None]

\* Player(id=player_id, websocket=websocket) with the class defaults
Player(c) ==
  [websocket |-> c, location |-> "cafeteria", role |-> "Crewmate",
   is_alive |-> TRUE, emergency_meetings_left |-> 1, tasks |-> NoTasks,
   active_task |-> None, movement_locked |-> FALSE]

\* The GameState a handler starts from.
Cur ==
  [players |-> players, bodies |-> bodies, phase |-> phase, votes |-> votes,
   game_started |-> game_started, timers |-> timers, out |-> <<>>,
   deferred |-> <<>>, exc |-> FALSE]

Raise(S) == [S EXCEPT !.exc = TRUE]

\* websocket.send succeeds iff the connection is open (a connection that
\* is being accepted is not in conns yet, and is open)
IsOpen(c) == IF c \in DOMAIN conns THEN conns[c].st = "open" ELSE TRUE

\* A frame handed to websocket.send on connection c; ok: it was delivered
Msg(c, type, info) == [conn |-> c, type |-> type, info |-> info, ok |-> IsOpen(c)]

Deliver(S, c, type, info) == [S EXCEPT !.out = Append(@, Msg(c, type, info))]

\* Iteration order of the players dict, taken in pool order.
PidOrder(ps) == SelectSeq(PLAYER_NAMES, LAMBDA n : n \in DOMAIN ps)

AliveIds(ps) == {p \in DOMAIN ps : ps[p].is_alive}

\* send_message: KeyError when the id is not in the roster; a failed send
\* is logged and swallowed.
send_message(S, pid, type, info) ==
  IF pid \notin DOMAIN S.players THEN Raise(S)
  ELSE Deliver(S, S.players[pid].websocket, type, info)

\* the text of an error frame is not kept
send_error(S, pid, text) == send_message(S, pid, "error", <<>>)

send_state_update(S, pid) == send_message(S, pid, "state_update", <<>>)

\* Variant of SendEach without the try / except around the send: the first
\* failed send ends the delivery pass
RECURSIVE SendEach_abort(_, _, _, _)
SendEach_abort(S, ps, type, info) ==
  IF ps = <<>> THEN S
  ELSE IF ~IsOpen(S.players[Head(ps)].websocket) THEN S
  ELSE SendEach_abort(Deliver(S, S.players[Head(ps)].websocket, type, info),
                      Tail(ps), type, info)

\* broadcast, the delivery pass: each send is tried, a failure is recorded
\* or logged, and the loop goes on
RECURSIVE SendEach(_, _, _, _)
SendEach(S, ps, type, info) ==
  IF ps = <<>> THEN S
  ELSE SendEach(Deliver(S, S.players[Head(ps)].websocket, type, info),
                Tail(ps), type, info)

RECURSIVE broadcast(_, _, _)
RECURSIVE DispatchDisconnects(_, _)

\* Variant of on_player_disconnected without the test that the player is
\* still in the roster: a player already removed is announced again
on_player_disconnected_again(S, pid) ==
  broadcast([S EXCEPT !.players = Without(@, pid)],
            "player_disconnected", <<pid>>)

\* on_player_disconnected
on_player_disconnected(S, pid) ==
  IF pid \in DOMAIN S.players
  THEN broadcast([S EXCEPT !.players = Without(@, pid)],
                 "player_disconnected", <<pid>>)
  ELSE S

DispatchDisconnects(S, failed) ==
  IF failed = <<>> THEN S
  ELSE DispatchDisconnects(on_player_disconnected(S, Head(failed)), Tail(failed))

\* Variant of broadcast that dispatches player_disconnected inside the
\* delivery pass, as soon as a send raises ConnectionClosedError
RECURSIVE SendEach_eager(_, _, _, _, _)
SendEach_eager(S, ws, ps, type, info) ==
  IF ps = <<>> THEN S
  ELSE LET c == ws[Head(ps)].websocket
           S1 == Deliver(S, c, type, info)
           S2 == IF c \in DOMAIN conns /\ conns[c].st = "closed_err"
                 THEN on_player_disconnected(S1, Head(ps))
                 ELSE S1
       IN  SendEach_eager(S2, ws, Tail(ps), type, info)

broadcast_eager(S, type, info) ==
  SendEach_eager(S, S.players, PidOrder(S.players), type, info)

\* broadcast: one delivery pass over a copy of the roster, then a
\* player_disconnected dispatch for every recipient whose send raised
\* ConnectionClosedError (any other failure is only logged).
broadcast(S, type, info) ==
  LET order == PidOrder(S.players)
      failed == SelectSeq(order,
                  LAMBDA p : LET c == S.players[p].websocket
                             IN  c \in DOMAIN conns /\ conns[c].st = "closed_err")
  IN  DispatchDisconnects(SendEach(S, order, type, info), failed)

\* asyncio.create_task(self.send_message(...)) / create_task(
\* self.send_state_update(...)): the send runs once the creating handler
\* has suspended; it looks the player up then.
Defer(S, pid, type, info) ==
  [S EXCEPT !.deferred = Append(@, [pid |-> pid, type |-> type, info |-> info])]

RECURSIVE RunDeferred(_, _)
RunDeferred(S, ds) ==
  IF ds = <<>> THEN [S EXCEPT !.deferred = <<>>]
  ELSE LET d == Head(ds)
       IN  RunDeferred(IF d.pid \in DOMAIN S.players
                       THEN Deliver(S, S.players[d.pid].websocket, d.type, d.info)
                       ELSE S,
                       Tail(ds))

\* ---------------------------------------------------- handle_connection -
\* The end of a handler run on connection c (player id pid; cs is conns
\* with c in it).  An exception that left the message loop is logged, the
\* `finally` clause dispatches player_disconnected, and the connection's
\* coroutine is over; so it is when the peer has closed (closed).  Then the
\* tasks the handler created run.
Apply(S, cs, n) ==
  /\ Len(S.timers) <= MaxTimers
  /\ frames + n <= MaxFrames
  /\ frames' = frames + n
  /\ players' = S.players
  /\ bodies' = S.bodies
  /\ phase' = S.phase
  /\ votes' = S.votes
  /\ game_started' = S.game_started
  /\ timers' = S.timers
  /\ conns' = cs

Outcome(pid, S0, closed) ==
  LET S1 == IF S0.exc \/ closed THEN on_player_disconnected(S0, pid) ELSE S0
  IN  RunDeferred(S1, S1.deferred)

\* GameState is as it was before the handler ran
Unchanged(S) ==
  /\ S.players = players
  /\ S.bodies = bodies
  /\ S.phase = phase
  /\ S.votes = votes
  /\ S.game_started = game_started
  /\ S.timers = timers

Commit(c, pid, cs, S0, closed, n) ==
  LET S == Outcome(pid, S0, closed)
      over == S0.exc \/ closed
  IN  Apply(S,
            IF over THEN [cs EXCEPT ![c] = [pid |-> None, st |-> "done"]] ELSE cs,
            IF Unchanged(S) /\ ~over THEN 0 ELSE n)

Init ==
  /\ players = EmptyMap
  /\ bodies = EmptyMap
  /\ phase = "free_roam"
  /\ votes = EmptyMap
  /\ game_started = FALSE
  /\ conns = <<>>
  /\ timers = <<>>
  /\ frames = 0

\* impostor_count = max(1, int(len(player_ids) * impostor_ratio))
\* Variant of impostor_count without the max(1, ...)
impostor_count_floor(n) == n \div impostor_ratio_den

\* max(1, int(len(player_ids) * self.state.impostor_ratio))
impostor_count(n) ==
  IF n \div impostor_ratio_den >= 1 THEN n \div impostor_ratio_den ELSE 1

\* random.sample(player_ids, k): every k-subset is a possible draw
Samples(ids, k) == {X \in SUBSET ids : Cardinality(X) = k}

RECURSIVE DeferEach(_, _, _, _)
DeferEach(S, ps, type, info) ==
  IF ps = <<>> THEN S
  ELSE DeferEach(Defer(S, Head(ps), type, info), Tail(ps), type, info)

\* assign_roles, given the sample drawn
assign_roles(S, impostor_ids) ==
  LET S1 == [S EXCEPT !.players =
               [p \in DOMAIN @ |->
                  [@[p] EXCEPT !.role = IF p \in impostor_ids
                                        THEN "Impostor" ELSE "Crewmate"]]]
  IN  DeferEach(S1, PidOrder(S.players), "state_update", <<>>)

\* handle_connection: the player is registered under the next free pool
\* name, welcomed, and announced (player_connected)
register(S, c, player_id) ==
  LET S1 == [S EXCEPT !.players = Put(@, player_id, Player(c))]
      S2 == send_message(S1, player_id, "welcome", <<player_id>>)
  IN  IF S2.exc THEN S2 ELSE broadcast(S2, "player_connected", <<player_id>>)

\* Variant of should_start that forgets the game has started
should_start_again(S) ==
  Cardinality(DOMAIN S.players) >= min_players

\* "Check if game should start"
should_start(S) ==
  /\ Cardinality(DOMAIN S.players) >= min_players
  /\ ~S.game_started

\* The samples assign_roles may draw in S
Draws(S) ==
  IF should_start(S)
  THEN Samples(DOMAIN S.players, impostor_count(Cardinality(DOMAIN S.players)))
  ELSE {{}}

\* handle_connection from the start check to the message loop
start_game(S, player_id, impostor_ids) ==
  LET S1 == IF should_start(S)
            THEN broadcast([assign_roles(S, impostor_ids)
                              EXCEPT !.game_started = TRUE],
                           "game_started", <<>>)
            ELSE S
  IN  send_state_update(S1, player_id)

\* The pool name a new connection gets
next_player_id(S) == PLAYER_NAMES[Cardinality(DOMAIN S.players) + 1]

server_full(S) == Cardinality(DOMAIN S.players) >= Len(PLAYER_NAMES)

\* handle_connection up to its message loop
handle_connection ==
  /\ Len(conns) < MaxConns
  /\ LET c == Len(conns) + 1
     IN  IF server_full(Cur)
         THEN Apply(Deliver(Cur, c, "error", <<>>),
                    Append(conns, [pid |-> None, st |-> "done"]), 0)
         ELSE LET pid == next_player_id(Cur)
                  S1 == register(Cur, c, pid)
              IN  \E imp \in Draws(S1) :
                    Commit(c, pid, Append(conns, [pid |-> pid, st |-> "open"]),
                           IF S1.exc THEN S1 ELSE start_game(S1, pid, imp),
                           FALSE, 0)

\* The peer closes its socket: normally (ConnectionClosedOK on later sends)
\* or abnormally (ConnectionClosedError).
PeerClose ==
  \E c \in DOMAIN conns, how \in {"closed_ok", "closed_err"} :
    /\ conns[c].st = "open"
    /\ Cardinality({d \in DOMAIN conns : conns[d].st # "open"}) < MaxCloses
    /\ conns' = [conns EXCEPT ![c].st = how]
    /\ frames < MaxFrames
    /\ frames' = frames + 1
    /\ UNCHANGED <<players, bodies, phase, votes, game_started, timers>>

\* The message loop of a closed connection ends: the `finally` clause
ReadLoopExit ==
  \E c \in DOMAIN conns :
    /\ conns[c].st \in {"closed_ok", "closed_err"}
    /\ Commit(c, conns[c].pid, conns,
              Cur, TRUE, 0)

RECURSIVE StateUpdates(_, _, _)
StateUpdates(S, ps, rooms) ==
  IF ps = <<>> THEN S
  ELSE StateUpdates(IF S.players[Head(ps)].location \in rooms
                    THEN send_state_update(S, Head(ps)) ELSE S,
                    Tail(ps), rooms)

\* on_action_move
move(S, pid, destination) ==
  IF pid \notin DOMAIN S.players THEN Raise(S)
  ELSE LET player == S.players[pid]
       IN  IF player.movement_locked
           THEN send_error(S, pid, "Cannot move while performing a task.")
           ELSE IF destination \in adjacent(player.location)
           THEN LET old_location == player.location
                    S1 == [S EXCEPT !.players[pid].location = destination]
                    S2 == broadcast(S1, "player_moved",
                                    <<pid, old_location, destination>>)
                IN  StateUpdates(S2, PidOrder(S2.players),
                                 {old_location, destination})
           ELSE send_error(S, pid, "Invalid move.")

on_action_move ==
  \E c \in DOMAIN conns, destination \in Dests :
    /\ conns[c].st = "open"
    /\ Commit(c, conns[c].pid, conns,
              move(Cur, conns[c].pid, destination), FALSE, 1)

\* The condition of on_action_kill
can_kill(S, killer_id, target_id) ==
  /\ killer_id \in DOMAIN S.players
  /\ target_id \in DOMAIN S.players
  /\ S.players[killer_id].role = "Impostor"
  /\ S.players[killer_id].is_alive
  /\ S.players[target_id].is_alive
  /\ S.players[killer_id].location = S.players[target_id].location

\* on_action_kill
kill(S, killer_id, target_id) ==
  IF can_kill(S, killer_id, target_id)
  THEN LET room == S.players[target_id].location
           S1 == [S EXCEPT !.players[target_id].is_alive = FALSE,
                           !.bodies = Put(@, target_id, room)]
           S2 == broadcast(S1, "player_killed", <<killer_id, target_id, room>>)
       IN  send_state_update(S2, target_id)
  ELSE send_error(S, killer_id, "Invalid kill attempt.")

on_action_kill ==
  \E c \in DOMAIN conns, target \in Targets :
    /\ conns[c].st = "open"
    /\ Commit(c, conns[c].pid, conns,
              kill(Cur, conns[c].pid, target), FALSE, 1)

\* Task.start / Task.tick / Task.interrupt, each giving the task after the
\* call and the value returned
Task(name, room, turns) ==
  [name |-> name, room |-> room, turns_remaining |-> turns,
   state |-> "INACTIVE", og_number_of_turns |-> None]

Task_start(t) ==
  LET t1 == [t EXCEPT !.og_number_of_turns = t.turns_remaining]
  IN  IF t.state = "INACTIVE"
      THEN [task |-> [t1 EXCEPT !.state = "ACTIVE"], ret |-> TRUE]
      ELSE [task |-> t1, ret |-> FALSE]

\* Variant of Task.tick that completes only below zero ("< 0" for "<= 0")
Task_tick_late(t) ==
  IF t.state = "ACTIVE"
  THEN LET t1 == [t EXCEPT !.turns_remaining = @ - 1]
       IN  IF t1.turns_remaining < 0
           THEN [task |-> [t1 EXCEPT !.state = "COMPLETED"], ret |-> TRUE]
           ELSE [task |-> t1, ret |-> FALSE]
  ELSE [task |-> t, ret |-> FALSE]

Task_tick(t) ==
  IF t.state = "ACTIVE"
  THEN LET t1 == [t EXCEPT !.turns_remaining = @ - 1]
       IN  IF t1.turns_remaining <= 0
           THEN [task |-> [t1 EXCEPT !.state = "COMPLETED"], ret |-> TRUE]
           ELSE [task |-> t1, ret |-> FALSE]
  ELSE [task |-> t, ret |-> FALSE]

\* Variant of Task.interrupt that reports success and leaves the task Active
Task_interrupt_stays_active(t) ==
  IF t.state = "ACTIVE"
  THEN [task |-> [t EXCEPT !.turns_remaining = t.og_number_of_turns],
        ret |-> TRUE]
  ELSE [task |-> t, ret |-> FALSE]

\* Variant of Task.interrupt that keeps the turns already worked
Task_interrupt_keeps_turns(t) ==
  IF t.state = "ACTIVE"
  THEN [task |-> [t EXCEPT !.state = "INTERRUPTED"], ret |-> TRUE]
  ELSE [task |-> t, ret |-> FALSE]

Task_interrupt(t) ==
  IF t.state = "ACTIVE"
  THEN [task |-> [t EXCEPT !.state = "INTERRUPTED",
                           !.turns_remaining = t.og_number_of_turns],
        ret |-> TRUE]
  ELSE [task |-> t, ret |-> FALSE]

\* send_task_list_update: reads task.turns_required and, in
\* calculate_global_progress, state.total_crewmate_tasks; neither attribute
\* exists, so the call raises AttributeError
send_task_list_update(S, pid) == Raise(S)

\* interrupt_player_task
interrupt_player_task(S, pid, reason) ==
  IF pid \notin DOMAIN S.players THEN Raise(S)
  ELSE LET player == S.players[pid]
       IN  IF player.active_task = None THEN S
           ELSE IF player.tasks = NoTasks THEN Raise(S)
           ELSE LET task_name == player.active_task
                    r == Task_interrupt(player.tasks[task_name])
                    S1 == [S EXCEPT !.players[pid].tasks[task_name] = r.task]
                IN  IF r.ret
                    THEN LET S2 == [S1 EXCEPT !.players[pid].movement_locked = FALSE,
                                              !.players[pid].active_task = None]
                             S3 == send_message(S2, pid, "task_interrupted",
                                                <<task_name, reason>>)
                         IN  IF S3.exc THEN S3 ELSE send_task_list_update(S3, pid)
                    ELSE S1

RECURSIVE InterruptEach(_, _, _)
InterruptEach(S, ps, reason) ==
  IF ps = <<>> \/ S.exc THEN S
  ELSE InterruptEach(interrupt_player_task(S, Head(ps), reason), Tail(ps), reason)

\* start_discussion_phase: the phase_change frames are sent by created
\* tasks, and run_discussion_timer is started as a task of its own
start_discussion_phase(S) ==
  LET S1 == [S EXCEPT !.phase = "discussion", !.votes = EmptyMap]
      S2 == InterruptEach(S1, PidOrder(S1.players), "discussion")
  IN  IF S2.exc THEN S2
      ELSE [DeferEach(S2, PidOrder(S2.players), "phase_change", <<"discussion">>)
              EXCEPT !.timers = Append(@, "disc")]

\* on_action_report
report(S, reporter_id) ==
  IF reporter_id \notin DOMAIN S.players THEN Raise(S)
  ELSE LET location == S.players[reporter_id].location
       IN  IF \E b \in DOMAIN S.bodies : S.bodies[b] = location
           THEN start_discussion_phase(S)
           ELSE send_error(S, reporter_id, "No bodies to report here.")

on_action_report ==
  \E c \in DOMAIN conns :
    /\ conns[c].st = "open"
    /\ Commit(c, conns[c].pid, conns,
              report(Cur, conns[c].pid), FALSE, 1)

\* vote_counts of tally_votes
vote_counts(vs) ==
  [t \in Range(vs) |-> Cardinality({p \in DOMAIN vs : vs[p] = t})]

\* "if len(candidates) == 1 and candidates[0] != "skip""
ejectable(candidates) ==
  Cardinality(candidates) = 1 /\ candidates # {"skip"}

\* tally_votes
tally_votes(S) ==
  LET vc == vote_counts(S.votes)
      Clear(T) == IF T.exc THEN T ELSE [T EXCEPT !.votes = EmptyMap]
  IN  IF DOMAIN vc # {}
      THEN LET max_votes == CHOOSE m \in Range(vc) : \A n \in Range(vc) : n <= m
               candidates == {t \in DOMAIN vc : vc[t] = max_votes}
           IN  IF ejectable(candidates)
               THEN LET ejected_player_id == CHOOSE t \in candidates : TRUE
                        S1 == interrupt_player_task(S, ejected_player_id, "death")
                    IN  IF S1.exc THEN S1
                        ELSE Clear(broadcast(
                               [S1 EXCEPT !.players[ejected_player_id].is_alive = FALSE],
                               "player_ejected",
                               <<ejected_player_id, S1.players[ejected_player_id].role>>))
               ELSE Clear(broadcast(S, "no_ejection", <<"No one was ejected.">>))
      ELSE Clear(broadcast(S, "no_ejection", <<"No votes cast.">>))

\* on_action_vote
vote(S, player_id, voted_player) ==
  IF player_id \notin DOMAIN S.votes
  THEN LET S1 == [S EXCEPT !.votes = Put(@, player_id, voted_player)]
           S2 == send_message(S1, player_id, "vote_received", <<>>)
       IN  IF S2.exc THEN S2
           ELSE IF Cardinality(DOMAIN S2.votes) >= Cardinality(AliveIds(S2.players))
           THEN tally_votes(S2)
           ELSE S2
  ELSE send_error(S, player_id, "You have already voted.")

on_action_vote ==
  \E c \in DOMAIN conns, voted_player \in VoteTargets :
    /\ conns[c].st = "open"
    /\ Commit(c, conns[c].pid, conns,
              vote(Cur, conns[c].pid, voted_player), FALSE, 1)

\* on_action_call_meeting
call_meeting(S, player_id) ==
  IF player_id \notin DOMAIN S.players THEN Raise(S)
  ELSE IF S.players[player_id].emergency_meetings_left > 0
  THEN LET S1 == [S EXCEPT !.players[player_id].emergency_meetings_left = @ - 1]
           S2 == broadcast(S1, "emergency_meeting_called", <<player_id>>)
       IN  start_discussion_phase(S2)
  ELSE send_error(S, player_id, "No emergency meetings left.")

on_action_call_meeting ==
  \E c \in DOMAIN conns :
    /\ conns[c].st = "open"
    /\ Commit(c, conns[c].pid, conns,
              call_meeting(Cur, conns[c].pid), FALSE, 1)

\* Variant of hears_ghost: ghost chat reaches everyone
hears_ghost_all(p) == p.is_alive \/ ~p.is_alive

\* "Only send ghost messages to dead players"
hears_ghost(p) == ~p.is_alive

RECURSIVE GhostSends(_, _, _)
GhostSends(S, ps, sender) ==
  IF ps = <<>> THEN S
  ELSE GhostSends(IF hears_ghost(S.players[Head(ps)])
                  THEN send_message(S, Head(ps), "chat_message", <<sender, "ghost">>)
                  ELSE S,
                  Tail(ps), sender)

\* on_action_chat
chat(S, player_id) ==
  IF player_id \notin DOMAIN S.players THEN Raise(S)
  ELSE IF S.phase = "discussion"
  THEN IF ~S.players[player_id].is_alive
       THEN GhostSends(S, PidOrder(S.players), player_id)
       ELSE broadcast(S, "chat_message", <<player_id, "living">>)
  ELSE send_error(S, player_id, "Cannot chat now.")

on_action_chat ==
  \E c \in DOMAIN conns :
    /\ conns[c].st = "open"
    /\ Commit(c, conns[c].pid, conns,
              chat(Cur, conns[c].pid), FALSE, 1)

\* validate_task_start: the reason of the refusal, None when valid, and
\* "TypeError" for `task_name not in player.tasks` on tasks = None
validate_task_start(S, player_id, task_name) ==
  LET player == S.players[player_id]
  IN  IF ~player.is_alive THEN "Player is not alive"
      ELSE IF S.phase # "free_roam" THEN "Not in free roam phase"
      ELSE IF player.tasks = NoTasks THEN "TypeError"
      ELSE IF task_name \notin DOMAIN player.tasks THEN "Task not assigned to player"
      ELSE IF player.location # player.tasks[task_name].room
      THEN "Player is not in the correct room"
      ELSE IF player.active_task # None THEN "Player has another active task"
      ELSE None

\* on_action_task
task_action(S, player_id, task_name) ==
  IF player_id \notin DOMAIN S.players THEN Raise(S)
  ELSE LET reason == validate_task_start(S, player_id, task_name)
       IN  IF reason = "TypeError" THEN Raise(S)
           ELSE IF reason # None THEN send_error(S, player_id, reason)
           ELSE LET r == Task_start(S.players[player_id].tasks[task_name])
                    S1 == [S EXCEPT !.players[player_id].tasks[task_name] = r.task]
                IN  IF ~r.ret
                    THEN send_error(S1, player_id, "Task could not be started")
                    ELSE LET S2 == [S1 EXCEPT
                                      !.players[player_id].active_task = task_name,
                                      !.players[player_id].movement_locked = TRUE]
                             S3 == send_message(S2, player_id, "task_started",
                                                <<task_name>>)
                         IN  IF S3.exc THEN S3
                             ELSE broadcast(S3, "task_progress",
                                            <<player_id, task_name, "started">>)

on_action_task ==
  \E c \in DOMAIN conns, task_name \in TaskNames :
    /\ conns[c].st = "open"
    /\ Commit(c, conns[c].pid, conns,
              task_action(Cur, conns[c].pid, task_name), FALSE, 1)

\* Player.assign_tasks.  Nothing in the server calls it (the call in
\* handle_connection is commented out), so no reachable roster has tasks;
\* it is used to run the task handlers on rosters that have them.
assign_tasks(player) ==
  IF player.role = "Crewmate"
  THEN [player EXCEPT !.tasks = [n \in {"Task 1"} |-> Task("Task 1", "cafeteria", 1)]]
  ELSE [player EXCEPT !.tasks = EmptyMap]

\* calculate_global_progress: reads self.state.total_crewmate_tasks, which
\* GameState does not have: AttributeError
calculate_global_progress(S) == Raise(S)

\* process_task_ticks: one pass over the roster.  A completed tick releases
\* the player and then calls calculate_global_progress, which raises, so
\* the task_complete broadcast is never reached.
RECURSIVE TickEach(_, _)
TickEach(S, ps) ==
  IF ps = <<>> \/ S.exc THEN S
  ELSE LET pid == Head(ps)
           player == S.players[pid]
       IN  IF player.active_task = None THEN TickEach(S, Tail(ps))
           ELSE IF player.tasks = NoTasks THEN Raise(S)
           ELSE LET task_name == player.active_task
                    r == Task_tick(player.tasks[task_name])
                    S1 == [S EXCEPT !.players[pid].tasks[task_name] = r.task]
                    S2 == send_message(S1, pid, "task_progress", <<task_name>>)
                IN  IF r.ret
                    THEN calculate_global_progress(
                           [S2 EXCEPT !.players[pid].movement_locked = FALSE,
                                      !.players[pid].active_task = None])
                    ELSE TickEach(S2, Tail(ps))

process_task_ticks(S) == TickEach(S, PidOrder(S.players))

\* The message loop on a frame that carries no registered action: invalid
\* JSON, JSON without "action", an action no handler is registered for
\* (dispatch finds no listener), or JSON that is no object (message.get
\* raises AttributeError)
bad_message(S, player_id, kind) ==
  CASE kind = "bad_json" -> send_error(S, player_id, "Invalid message format.")
    [] kind = "no_action" -> send_error(S, player_id, "Invalid action.")
    [] kind = "unknown_action" -> S
    [] kind = "not_object" -> Raise(S)

on_bad_message ==
  \E c \in DOMAIN conns, kind \in BadKinds :
    /\ conns[c].st = "open"
    /\ Commit(c, conns[c].pid, conns,
              bad_message(Cur, conns[c].pid, kind), FALSE, 1)

\* start_voting_phase up to its sleep, run by timer task i
start_voting_phase(S, i) ==
  broadcast([S EXCEPT !.phase = "voting", !.timers[i] = "vote"],
            "phase_change", <<"voting">>)

\* start_voting_phase after its sleep: tally_votes, then free_roam.  An
\* exception out of tally_votes ends the task there.
end_voting_phase(S) ==
  LET S1 == tally_votes([S EXCEPT !.timers = Tail(@)])
  IN  IF S1.exc THEN S1 ELSE [S1 EXCEPT !.phase = "free_roam"]

\* run_discussion_timer: the sleep is over.  Timers sleep the same
\* discussion_duration, so they wake in the order they were started.
DiscussionTimerExpires ==
  \E i \in DOMAIN timers :
    /\ timers[i] = "disc"
    /\ \A j \in 1..(i - 1) : timers[j] # "disc"
    /\ Apply(start_voting_phase(Cur, i), conns, 0)

\* The voting sleep of the oldest timer task is over
VotingTimerExpires ==
  /\ timers # <<>>
  /\ timers[1] = "vote"
  /\ Apply(end_voting_phase(Cur), conns, 0)

Next ==
  \/ handle_connection
  \/ PeerClose
  \/ ReadLoopExit
  \/ on_action_move
  \/ on_action_kill
  \/ on_action_report
  \/ on_action_vote
  \/ on_action_call_meeting
  \/ on_action_chat
  \/ on_action_task
  \/ on_bad_message
  \/ DiscussionTimerExpires
  \/ VotingTimerExpires

Spec == Init /\ [][Next]_vars

\* ------------------------------------------------------------ claims --
\* Connections whose message loop is running
OpenConns == {c \in DOMAIN conns : conns[c].st = "open"}

\* Connections that act for a player of the roster
Actors == {c \in OpenConns : conns[c].pid \in DOMAIN players}

\* The frames a handler run handed to websocket.send
Frames(S) == {S.out[i] : i \in DOMAIN S.out}

\* A frame of the given type was sent to the connection registered for pid
SentTo(S, pid, type) ==
  \E m \in Frames(S) : m.type = type /\ m.conn = players[pid].websocket

\* A frame of the given type was sent to every player of the roster
BroadcastOf(S, type) == \A q \in DOMAIN players : SentTo(S, q, type)

BodyIn(room) == \E b \in DOMAIN bodies : bodies[b] = room

\* C1: a move by a roster player p to d succeeds (p.location becomes d) iff
\* d is adjacent to p's room, p is alive and p is not movement-locked;
\* otherwise GameState is unchanged and p is sent an error.
C1_MoveSucceedsIff ==
  \A c \in Actors, d \in Dests :
    LET p == conns[c].pid
        R == Outcome(p, move(Cur, p, d), FALSE)
    IN  IF /\ d \in adjacent(players[p].location)
           /\ players[p].is_alive
           /\ ~players[p].movement_locked
        THEN p \in DOMAIN R.players => R.players[p].location = d
        ELSE Unchanged(R) /\ SentTo(R, p, "error")

\* C2: a kill sent on an open connection by actor a against t succeeds iff
\* a is an alive Impostor of the roster and t is an alive roster member in
\* a's room; on success t is dead and bodies[t] is the room t was in;
\* otherwise GameState is unchanged and the sender gets an error frame.
C2_KillSucceedsIff ==
  \A c \in OpenConns, t \in Targets :
    LET a == conns[c].pid
        R == Outcome(a, kill(Cur, a, t), FALSE)
    IN  IF /\ a \in DOMAIN players
           /\ players[a].role = "Impostor"
           /\ players[a].is_alive
           /\ t \in DOMAIN players
           /\ players[t].is_alive
           /\ players[a].location = players[t].location
        THEN /\ t \in DOMAIN R.players => ~R.players[t].is_alive
             /\ t \in DOMAIN R.bodies
             /\ R.bodies[t] = players[t].location
        ELSE /\ Unchanged(R)
             /\ \E m \in Frames(R) : m.type = "error" /\ m.conn = c

\* C3: a report by roster player p succeeds iff p is alive and a body lies
\* in p's room; a successful report is one free_roam -> discussion
\* transition and leaves votes empty; a failed one changes nothing and p is
\* sent an error.
C3_ReportSucceedsIff ==
  \A c \in Actors :
    LET p == conns[c].pid
        R == Outcome(p, report(Cur, p), FALSE)
    IN  IF players[p].is_alive /\ BodyIn(players[p].location)
        THEN /\ phase = "free_roam"
             /\ R.phase = "discussion"
             /\ R.votes = EmptyMap
        ELSE Unchanged(R) /\ SentTo(R, p, "error")

\* C4: no report creates a bodies entry; a successful report from room r
\* removes the bodies lying in r, so that the same report sent again is
\* rejected with an error.
C4_ReportRemovesBody ==
  \A c \in Actors :
    LET p == conns[c].pid
        r == players[p].location
        R == report(Cur, p)
        again == report([R EXCEPT !.out = <<>>, !.deferred = <<>>], p)
    IN  /\ DOMAIN R.bodies \subseteq DOMAIN bodies
        /\ (BodyIn(r) /\ ~R.exc) =>
             /\ \A b \in DOMAIN R.bodies : R.bodies[b] # r
             /\ again.timers = R.timers
             /\ \E m \in Frames(again) : m.type = "error"

\* C5: a vote by roster player p for x is recorded iff the phase is voting,
\* p is alive, p has not voted in this phase and x is "skip" or a roster
\* id; otherwise GameState is unchanged and p is sent an error.
C5_VoteRecordedIff ==
  \A c \in Actors, x \in VoteTargets :
    LET p == conns[c].pid
        R == Outcome(p, vote(Cur, p, x), FALSE)
    IN  IF /\ phase = "voting"
           /\ players[p].is_alive
           /\ p \notin DOMAIN votes
           /\ (x = "skip" \/ x \in DOMAIN players)
        THEN SentTo(R, p, "vote_received")
        ELSE Unchanged(R) /\ SentTo(R, p, "error")

\* The states tally_votes runs in: the current one (the voting timer), and
\* the current one with one more vote recorded (the vote that completes
\* the count)
TallyInputs ==
  {Cur} \cup {[Cur EXCEPT !.votes = Put(@, p, x)] :
                p \in DOMAIN players \ DOMAIN votes, x \in VoteTargets}

\* The targets other than "skip" that alone hold the highest count in vs
SingleTop(vs) ==
  {c \in Range(vs) \ {"skip"} :
     \A t \in Range(vs) \ {c} : vote_counts(vs)[t] < vote_counts(vs)[c]}

\* C6: for every votes map the tally ejects c (c.alive becomes false and
\* player_ejected is broadcast) exactly when c is the single target with
\* the strictly highest count and is not "skip"; on a tie, when "skip" is
\* highest, or with no vote cast, no alive flag changes and no_ejection is
\* broadcast.
C6_TallyEjectsSingleTop ==
  \A S \in TallyInputs :
    LET R == tally_votes(S)
        stay == DOMAIN players \cap DOMAIN R.players
    IN  /\ ~R.exc
        /\ \A c \in SingleTop(S.votes) :
             /\ c \in DOMAIN R.players => ~R.players[c].is_alive
             /\ BroadcastOf(R, "player_ejected")
        /\ \A c \in stay \ SingleTop(S.votes) :
             R.players[c].is_alive = players[c].is_alive
        /\ SingleTop(S.votes) = {} => BroadcastOf(R, "no_ejection")

PhaseOrder ==
  {<<"free_roam", "discussion">>, <<"discussion", "voting">>,
   <<"voting", "free_roam">>}

\* C7: the phase starts at free_roam and changes only along free_roam ->
\* discussion -> voting -> free_roam.
C7_PhaseCycle ==
  /\ phase = "free_roam"
  /\ [][phase' # phase => <<phase, phase'>> \in PhaseOrder]_vars

\* C8: in voting, the vote that makes the number of votes equal the number
\* of living players, and the expiry of the voting timer, each tally the
\* votes, clear them, set the phase to free_roam and broadcast
\* phase_change(free_roam).
C8_VotingEnds ==
  phase = "voting" =>
    /\ \A c \in Actors, x \in VoteTargets :
         LET p == conns[c].pid
             R == Outcome(p, vote(Cur, p, x), FALSE)
         IN  (/\ p \notin DOMAIN votes
              /\ Cardinality(DOMAIN votes) + 1 = Cardinality(AliveIds(players)))
             => /\ R.votes = EmptyMap
                /\ R.phase = "free_roam"
                /\ BroadcastOf(R, "phase_change")
    /\ (timers # <<>> /\ timers[1] = "vote") =>
         LET R == end_voting_phase(Cur)
         IN  /\ R.votes = EmptyMap
             /\ R.phase = "free_roam"
             /\ BroadcastOf(R, "phase_change")

Impostors(ps) == {p \in DOMAIN ps : ps[p].role = "Impostor"}

\* What handle_connection does on a new connection in the current state,
\* for the sample imp
Connected(imp) ==
  LET pid == next_player_id(Cur)
      S1 == register(Cur, Len(conns) + 1, pid)
  IN  Outcome(pid, IF S1.exc THEN S1 ELSE start_game(S1, pid, imp), FALSE)

\* C9: roles are assigned exactly once: by the connect that first brings
\* the roster to min_players while game_started is false (so that a
\* roster of min_players is always a started game); game_started then
\* stays true, the game_started frame is sent by that connect only, and no
\* later step makes an Impostor.
C9_RolesAssignedOnce ==
  /\ [](~game_started =>
          /\ Cardinality(DOMAIN players) < min_players
          /\ Impostors(players) = {})
  /\ [](~server_full(Cur) =>
          \A imp \in Draws(register(Cur, Len(conns) + 1, next_player_id(Cur))) :
            LET R == Connected(imp)
            IN  /\ (\E m \in Frames(R) : m.type = "game_started")
                     <=> (~game_started /\ R.game_started)
                /\ game_started => Impostors(R.players) \subseteq Impostors(players))
  /\ [][/\ game_started => game_started'
        /\ game_started => Impostors(players') \subseteq Impostors(players)
        /\ (~game_started /\ game_started') =>
             /\ Cardinality(DOMAIN players') >= min_players
             /\ Cardinality(Impostors(players')) >= 1]_vars

\* A connection joined the started game and brought the roster back up to
\* min_players
C9_Witness ==
  /\ game_started
  /\ Len(conns) > min_players
  /\ conns[Len(conns)].st = "open"
  /\ Cardinality(DOMAIN players) >= min_players
  /\ players[conns[Len(conns)].pid].websocket = Len(conns)

\* C10: in discussion, the chat frames of a dead player go to the
\* connections of dead players only, never to a living player's.
C10_GhostChatIsolation ==
  \A c \in Actors :
    LET p == conns[c].pid
        R == Outcome(p, chat(Cur, p), FALSE)
    IN  (phase = "discussion" /\ ~players[p].is_alive) =>
          /\ \A m \in Frames(R) :
               m.type = "chat_message" =>
                 /\ \E q \in DOMAIN players :
                      ~players[q].is_alive /\ players[q].websocket = m.conn
                 /\ \A q \in AliveIds(players) : players[q].websocket # m.conn
          /\ \A q \in DOMAIN players :
               ~players[q].is_alive => SentTo(R, q, "chat_message")

\* A dead player can chat in a discussion with a living player in it
C10_Witness ==
  /\ phase = "discussion"
  /\ \E c \in Actors :
       /\ ~players[conns[c].pid].is_alive
       /\ \E m \in Frames(chat(Cur, conns[c].pid)) : m.type = "chat_message" /\ m.ok
  /\ \E q \in AliveIds(players) : conns[players[q].websocket].st = "open"

\* The recipients of a broadcast in the current state whose connection is
\* closed / is open
ClosedRecipients == {q \in DOMAIN players : ~IsOpen(players[q].websocket)}

OpenRecipients == DOMAIN players \ ClosedRecipients

\* C11: in a broadcast to the roster, a send that fails because the
\* recipient's connection is closed does not stop the pass: every recipient
\* whose connection is open is delivered the message.
C11_BroadcastResilience ==
  LET R == broadcast(Cur, "player_moved", <<>>)
  IN  \A q \in OpenRecipients :
        \E m \in Frames(R) :
          m.conn = players[q].websocket /\ m.type = "player_moved" /\ m.ok

\* A roster of three or more in which exactly one recipient's connection
\* is closed, and that recipient is sent to before an open one
C11_Witness ==
  /\ Cardinality(DOMAIN players) >= 3
  /\ Cardinality(ClosedRecipients) = 1
  /\ \E i, j \in DOMAIN PLAYER_NAMES :
       /\ i < j
       /\ PLAYER_NAMES[i] \in ClosedRecipients
       /\ PLAYER_NAMES[j] \in OpenRecipients

\* C12: in every reachable state whose phase is free_roam or discussion the
\* votes map is empty.
C12_VotesEmptyOutsideVoting ==
  phase \in {"free_roam", "discussion"} => votes = EmptyMap

\* C13: every key of bodies is the id of a roster player who is dead, and
\* whose body has not been reported: once a report from a room has started
\* the discussion, no body of that room is left in the map.
C13_BodiesAreUnreportedDead ==
  /\ \A b \in DOMAIN bodies :
       b \in DOMAIN players /\ ~players[b].is_alive
  /\ \A c \in Actors :
       LET p == conns[c].pid
           r == players[p].location
           R == Outcome(p, report(Cur, p), FALSE)
       IN  (BodyIn(r) /\ R.phase = "discussion") =>
             \A b \in DOMAIN R.bodies : R.bodies[b] # r

\* The current state with the tasks of Player.assign_tasks given to every
\* player
Assigned == [Cur EXCEPT !.players = [p \in DOMAIN @ |-> assign_tasks(@[p])]]

\* p has a task whose state is Active
HasActiveTask(player) ==
  /\ player.tasks # NoTasks
  /\ \E t \in DOMAIN player.tasks : player.tasks[t].state = "ACTIVE"

LockedIffActive(S) ==
  \A p \in DOMAIN S.players :
    S.players[p].movement_locked <=> HasActiveTask(S.players[p])

\* C14: for every player, movement_locked is true iff the player has a task
\* whose state is Active: in every reachable state, and, on a roster that
\* has tasks, after a task start and after the tick, interrupt, kill,
\* discussion start or tally that follows it.
C14_LockedIffActiveTask ==
  /\ LockedIffActive(Cur)
  /\ \A c \in Actors, task_name \in TaskNames :
       LET p == conns[c].pid
           S1 == task_action(Assigned, p, task_name)
       IN  /\ LockedIffActive(S1)
           /\ ~S1.exc =>
                /\ LockedIffActive(process_task_ticks(S1))
                /\ LockedIffActive(start_discussion_phase(S1))
                /\ LockedIffActive(tally_votes(S1))
                /\ \A q \in DOMAIN S1.players :
                     /\ LockedIffActive(interrupt_player_task(S1, q, "death"))
                     /\ LockedIffActive(kill(S1, q, p))
                     /\ LockedIffActive(task_action(S1, q, task_name))

\* On a roster with tasks, a task start locks a player on an Active task
C14_Witness ==
  /\ game_started
  /\ \E c \in Actors :
       LET p == conns[c].pid
           S1 == task_action(Assigned, p, "Task 1")
       IN  /\ S1.players[p].movement_locked
           /\ S1.players[p].active_task = "Task 1"
           /\ S1.players[p].tasks["Task 1"].state = "ACTIVE"
           /\ ~process_task_ticks(S1).players[p].movement_locked

\* C15: a newly accepted connection gets a player id that no player of the
\* roster has, and while a connection is open its id denotes its own
\* player record.
C15_FreshStableIds ==
  /\ ~server_full(Cur) => next_player_id(Cur) \notin DOMAIN players
  /\ \A c \in OpenConns :
       /\ conns[c].pid \in DOMAIN players
       /\ players[conns[c].pid].websocket = c

\* C16: at most one phase timer task (discussion or voting) is pending.
C16_SinglePhaseTimer == Len(timers) <= 1

GameStateVars == <<players, bodies, phase, votes, game_started>>

\* C17: handlers run one at a time: while a start_voting_phase run is
\* suspended in its sleep, no handler of an inbound action or of a timer
\* expiry changes GameState; the only such step is the resumption of that
\* run (the accept of a new connection is left aside).
C17_HandlersSerialized ==
  [][(\E i \in DOMAIN timers : timers[i] = "vote") =>
       \/ GameStateVars' = GameStateVars
       \/ timers[1] = "vote" /\ timers' = Tail(timers)
       \/ Len(conns') # Len(conns)]_vars

\* C18: of two vote messages a player sends in one voting phase exactly one
\* is recorded and the other is answered with an error.
C18_OneVotePerPhase ==
  \A c \in Actors, x \in VoteTargets, y \in VoteTargets :
    LET p == conns[c].pid
        R1 == Outcome(p, vote(Cur, p, x), FALSE)
        R2 == vote([R1 EXCEPT !.out = <<>>], p, y)
        Got(R, type) == \E m \in Frames(R) : m.type = type /\ m.conn = c
    IN  (/\ phase = "voting"
         /\ p \notin DOMAIN votes
         /\ players[p].websocket = c
         /\ ~R1.exc
         /\ R1.phase = "voting"
         /\ p \in DOMAIN R1.players)
        => /\ Got(R1, "vote_received")
           /\ ~Got(R2, "vote_received")
           /\ Got(R2, "error")

\* C19: a call_meeting by roster player p succeeds iff p is alive and has
\* an emergency meeting left; on success the counter goes down by one and
\* the phase becomes discussion; otherwise nothing changes and p is sent an
\* error; the counter is never negative.
C19_CallMeetingIff ==
  /\ \A p \in DOMAIN players : players[p].emergency_meetings_left >= 0
  /\ \A c \in Actors :
       LET p == conns[c].pid
           R == Outcome(p, call_meeting(Cur, p), FALSE)
       IN  IF players[p].is_alive /\ players[p].emergency_meetings_left > 0
           THEN /\ R.phase = "discussion"
                /\ p \in DOMAIN R.players =>
                     R.players[p].emergency_meetings_left
                       = players[p].emergency_meetings_left - 1
           ELSE Unchanged(R) /\ SentTo(R, p, "error")

\* max(1, floor(N * 0.2)), written without impostor_count
ExpectedImpostors(N) == IF (N * 2) \div 10 >= 1 THEN (N * 2) \div 10 ELSE 1

\* C20: role assignment on a roster of N players makes exactly
\* max(1, floor(N * impostor_ratio)) distinct players Impostor and the
\* other N - that many Crewmate; the count is right for every roster size
\* the name pool allows.
C20_ImpostorCount ==
  /\ \A N \in 1..Len(AllNames) : impostor_count(N) = ExpectedImpostors(N)
  /\ ~server_full(Cur) =>
       LET S1 == register(Cur, Len(conns) + 1, next_player_id(Cur))
           N == Cardinality(DOMAIN S1.players)
       IN  should_start(S1) =>
             \A imp \in Draws(S1) :
               LET A == assign_roles(S1, imp)
               IN  /\ DOMAIN A.players = DOMAIN S1.players
                   /\ Cardinality(Impostors(A.players)) = ExpectedImpostors(N)
                   /\ Cardinality({p \in DOMAIN A.players :
                                     A.players[p].role = "Crewmate"})
                        = N - ExpectedImpostors(N)

\* Roles have been assigned: the game has started on a full starting roster
C20_Witness ==
  /\ game_started
  /\ Cardinality(DOMAIN players) = min_players
  /\ Cardinality(Impostors(players)) = ExpectedImpostors(min_players)
  /\ \A c \in DOMAIN conns : conns[c].st = "open"

\* C21: once roles are assigned, the role recorded for a player id does not
\* change while that id stays in the roster.
C21_RoleFixed ==
  [][game_started =>
       \A p \in DOMAIN players \cap DOMAIN players' :
         players'[p].role = players[p].role]_vars

\* Connections whose handle_connection coroutine has not ended
LiveConns == {c \in DOMAIN conns : conns[c].st # "done"}

\* C22: when the read loop of a connection c ends because the peer closed,
\* c's player is removed from the roster, player_disconnected is sent to
\* the remaining players, every other player whose connection is open
\* stays in the roster with its record unchanged, and the player of every
\* other open connection is still in the roster (its actions are served).
C22_DisconnectRemovesOnlyThatPlayer ==
  \A c \in LiveConns :
    LET pid == conns[c].pid
        R == Outcome(pid, Cur, TRUE)
    IN  pid \in DOMAIN players =>
          /\ pid \notin DOMAIN R.players
          /\ \A q \in DOMAIN players \ {pid} :
               IsOpen(players[q].websocket) =>
                 /\ q \in DOMAIN R.players
                 /\ R.players[q] = players[q]
                 /\ SentTo(R, q, "player_disconnected")
          /\ \A d \in OpenConns \ {c} :
               conns[d].pid \in DOMAIN players => conns[d].pid \in DOMAIN R.players

\* C23: every malformed inbound payload (invalid JSON, no action field, an
\* action name no handler is registered for, JSON that is no object) is
\* answered with an error frame to its sender and changes no game state.
C23_MalformedGetsError ==
  \A c \in Actors, kind \in BadKinds :
    LET p == conns[c].pid
        R == Outcome(p, bad_message(Cur, p, kind), FALSE)
    IN  /\ Unchanged(R)
        /\ \E m \in Frames(R) : m.type = "error" /\ m.conn = players[p].websocket

\* C24: a task start by roster player p for task k succeeds iff p is alive,
\* the phase is free_roam, k is assigned to p, p is in k's room and p has
\* no active task; on success k is Active and p is movement-locked;
\* otherwise nothing changes and p is sent an error.
C24_TaskStartIff ==
  \A c \in Actors, k \in TaskNames :
    LET p == conns[c].pid
        player == players[p]
        R == Outcome(p, task_action(Cur, p, k), FALSE)
    IN  IF /\ player.is_alive
           /\ phase = "free_roam"
           /\ player.tasks # NoTasks
           /\ k \in DOMAIN player.tasks
           /\ player.location = player.tasks[k].room
           /\ player.active_task = None
        THEN p \in DOMAIN R.players =>
               /\ R.players[p].tasks[k].state = "ACTIVE"
               /\ R.players[p].movement_locked
        ELSE Unchanged(R) /\ SentTo(R, p, "error")

\* C25: right after role assignment every Crewmate of the roster has a
\* task set with at least one Inactive task, and every Impostor has no
\* tasks.
C25_TasksCreatedWithRoles ==
  ~server_full(Cur) =>
    LET pid == next_player_id(Cur)
        S1 == register(Cur, Len(conns) + 1, pid)
    IN  should_start(S1) =>
          \A imp \in Draws(S1) :
            LET A == start_game(S1, pid, imp)
            IN  \A p \in DOMAIN A.players :
                  IF A.players[p].role = "Crewmate"
                  THEN /\ A.players[p].tasks # NoTasks
                       /\ \E t \in DOMAIN A.players[p].tasks :
                            A.players[p].tasks[t].state = "INACTIVE"
                  ELSE A.players[p].tasks \in {NoTasks, EmptyMap}

\* Every task of every Crewmate of the roster is Completed
AllCrewTasksCompleted(S) ==
  \A q \in DOMAIN S.players :
    (S.players[q].role = "Crewmate" /\ S.players[q].tasks # NoTasks) =>
      \A t \in DOMAIN S.players[q].tasks : S.players[q].tasks[t].state = "COMPLETED"

ScenarioStart(A, C) ==
  /\ game_started /\ phase = "free_roam"
  /\ bodies = EmptyMap /\ votes = EmptyMap /\ timers = <<>>
  /\ DOMAIN players = {A, "Bob", C}
  /\ Cardinality({A, "Bob", C}) = min_players
  /\ \A q \in DOMAIN players :
       /\ players[q].is_alive
       /\ players[q].websocket \in OpenConns
       /\ conns[players[q].websocket].pid = q
  /\ Impostors(players) = {A}
  /\ players[A].location = players["Bob"].location
  /\ players[C].location = players["Bob"].location

\* C27: in a started game of three, the kill of B by Impostor A leaves B dead
\* with a body in the room; the report by C in that room removes the body and
\* enters discussion; the discussion timer leads to voting; the votes
\* A:"skip", C:"B" tie, nobody is ejected, and the phase returns to
\* free_roam.
C27_EndToEnd ==
  \A A \in NameSet, C \in NameSet :
    ScenarioStart(A, C) =>
      LET room == players["Bob"].location
          K == kill(Cur, A, "Bob")
          R == report(K, C)
          V == start_voting_phase(R, 1)
          V1 == vote(V, A, "skip")
          V2 == vote(V1, C, "Bob")
          F == end_voting_phase(V2)
      IN  /\ ~K.exc /\ ~K.players["Bob"].is_alive /\ K.bodies = ("Bob" :> room)
          /\ ~R.exc /\ R.phase = "discussion" /\ R.timers = <<"disc">>
          /\ "Bob" \notin DOMAIN R.bodies
          /\ ~V.exc /\ V.phase = "voting"
          /\ ~V2.exc /\ AliveIds(V2.players) = {A, C}
          /\ \E m \in Frames(V2) : m.type = "no_ejection"
          /\ ~F.exc /\ F.phase = "free_roam" /\ AliveIds(F.players) = {A, C}

\* The state after an entry into discussion from S0 is as the entry rule
\* says: no votes, nobody on an Active task or movement-locked, and every
\* task that was Active in S0 is Interrupted
DiscussionEntered(S0, R) ==
  /\ R.votes = EmptyMap
  /\ \A q \in DOMAIN R.players :
       /\ ~HasActiveTask(R.players[q])
       /\ ~R.players[q].movement_locked
       /\ (q \in DOMAIN S0.players /\ S0.players[q].tasks # NoTasks) =>
            \A t \in DOMAIN S0.players[q].tasks :
              S0.players[q].tasks[t].state = "ACTIVE" =>
                R.players[q].tasks[t].state = "INTERRUPTED"

\* The entries into discussion that the actors can make from S0
Entries(S0) ==
  {Outcome(conns[c].pid, report(S0, conns[c].pid), FALSE) : c \in Actors}
    \cup {Outcome(conns[c].pid, call_meeting(S0, conns[c].pid), FALSE) : c \in Actors}

NoDeadActive(S) ==
  \A q \in DOMAIN S.players :
    ~S.players[q].is_alive => ~HasActiveTask(S.players[q])

FairSpec ==
  Spec /\ WF_vars(DiscussionTimerExpires) /\ WF_vars(VotingTimerExpires)

\* C30: under fair timer expiry, every discussion is eventually followed by
\* voting and every voting by free_roam, whatever the clients do meanwhile;
\* the phase never stays in discussion or voting forever.
C30_PhasesEventuallyEnd ==
  /\ (phase = "discussion") ~> (phase = "voting")
  /\ (phase = "voting") ~> (phase = "free_roam")

\* The recipients of a broadcast in the current state whose send raises
\* ConnectionClosedError
FailedRecipients ==
  {q \in DOMAIN players :
     LET c == players[q].websocket
     IN  c \in DOMAIN conns /\ conns[c].st = "closed_err"}

\* C31: a broadcast first attempts a send to every player of the roster, in
\* roster order and with the roster untouched; only after that pass are the
\* recipients whose send raised ConnectionClosedError removed and announced
\* by player_disconnected.
C31_DisconnectsAfterDeliveryPass ==
  LET R == broadcast(Cur, "player_killed", <<>>)
      order == PidOrder(players)
      n == Len(order)
  IN  /\ Len(R.out) >= n
      /\ \A i \in 1..n :
           /\ R.out[i].type = "player_killed"
           /\ R.out[i].conn = players[order[i]].websocket
      /\ \A i \in (n + 1)..Len(R.out) : R.out[i].type = "player_disconnected"
      /\ DOMAIN R.players = DOMAIN players \ FailedRecipients
      /\ FailedRecipients # {} => Len(R.out) > n \/ DOMAIN R.players = {}

\* A roster in which a recipient whose send fails comes before one whose
\* connection is open
C31_Witness ==
  \E i, j \in DOMAIN PLAYER_NAMES :
    /\ i < j
    /\ PLAYER_NAMES[i] \in FailedRecipients
    /\ PLAYER_NAMES[j] \in OpenRecipients

\* ------------------------------------------------------- the task code --
\* The task code of game_server.py run on its own: a started game whose
\* Crewmates hold a task (Player.assign_tasks, with the number of turns
\* drawn from 1..MaxTurns) and whose task_tick_loop is running.  The server
\* itself never gets here, as it neither assigns tasks nor starts the loop.
MaxTurns == 3

TaskInit ==
  \E imp \in NameSet, turns \in [NameSet -> 1..MaxTurns] :
    /\ players =
         [p \in NameSet |->
            LET c == CHOOSE i \in DOMAIN PLAYER_NAMES : PLAYER_NAMES[i] = p
            IN  IF p = imp
                THEN [Player(c) EXCEPT !.role = "Impostor", !.tasks = EmptyMap]
                ELSE [Player(c) EXCEPT
                        !.tasks = [n \in {"Task 1"} |->
                                     Task("Task 1", "cafeteria", turns[p])]]]
    /\ conns = [i \in DOMAIN PLAYER_NAMES |-> [pid |-> PLAYER_NAMES[i], st |-> "open"]]
    /\ bodies = EmptyMap
    /\ phase = "free_roam"
    /\ votes = EmptyMap
    /\ game_started = TRUE
    /\ timers = <<"tick">>
    /\ frames = 0

\* task_tick_loop: the sleep is over and process_task_ticks runs; an
\* exception out of it ends the loop
task_tick_loop ==
  /\ timers # <<>>
  /\ timers[1] = "tick"
  /\ LET T == process_task_ticks(Cur)
     IN  Apply(IF T.exc THEN [T EXCEPT !.timers = Tail(@)] ELSE T, conns, 0)

TaskNext ==
  \/ on_action_task
  \/ on_action_call_meeting
  \/ task_tick_loop

TaskSpec == TaskInit /\ [][TaskNext]_vars

\* The task after k calls of Task.tick
RECURSIVE Ticks(_, _)
Ticks(t, k) == IF k = 0 THEN t ELSE Ticks(Task_tick(t).task, k - 1)

\* The players that hold the task "Task 1"
TaskHolders(ps) ==
  {p \in DOMAIN ps : ps[p].tasks # NoTasks /\ "Task 1" \in DOMAIN ps[p].tasks}

\* C32: an Active task with r turns remaining stays Active for r - 1 more
\* ticks and is Completed by the r-th (so a task started with n turns is
\* Completed at exactly its n-th tick); the step that completes it clears
\* its owner's movement lock; a Completed task stays Completed; and a tick
\* leaves a task that is not Active as it is.
C32_CompletedAtNthTick ==
  [][\A p \in TaskHolders(players) \cap TaskHolders(players') :
       LET t == players[p].tasks["Task 1"]
           u == players'[p].tasks["Task 1"]
       IN  /\ t.state = "INACTIVE" /\ u.state = "ACTIVE" =>
                /\ \A j \in 0..(u.turns_remaining - 1) : Ticks(u, j).state = "ACTIVE"
                /\ Ticks(u, u.turns_remaining).state = "COMPLETED"
                /\ u.turns_remaining = t.turns_remaining
           /\ t.state = "ACTIVE" /\ u.state = "ACTIVE" =>
                \/ u = t
                \/ u = Task_tick(t).task /\ u.turns_remaining = t.turns_remaining - 1
           /\ t.state = "ACTIVE" /\ u.state = "COMPLETED" =>
                /\ t.turns_remaining = 1
                /\ u = Task_tick(t).task
                /\ ~players'[p].movement_locked
           /\ t.state = "COMPLETED" => u.state = "COMPLETED"
           /\ t.state # "ACTIVE" => Task_tick(t).task = t /\ Ticks(t, MaxTurns) = t
    ]_vars

\* A task started with MaxTurns turns has been ticked to Completed and its
\* owner is free to move
C32_Witness ==
  \E p \in TaskHolders(players) :
    /\ players[p].tasks["Task 1"].state = "COMPLETED"
    /\ players[p].tasks["Task 1"].og_number_of_turns = MaxTurns
    /\ players[p].tasks["Task 1"].turns_remaining = 0
    /\ ~players[p].movement_locked

\* C33: interrupting an Active task that was started with n turns and has
\* been ticked k < n times leaves it Interrupted with n turns remaining,
\* and interrupt_player_task leaves its owner unlocked with no active task.
C33_InterruptRestoresTurns ==
  \A p \in TaskHolders(players) :
    LET t == players[p].tasks["Task 1"]
        n == t.turns_remaining
        I == interrupt_player_task(Cur, p, "discussion")
    IN  /\ t.state = "INACTIVE" =>
             \A k \in 0..(n - 1) :
               LET r == Task_interrupt(Ticks(Task_start(t).task, k))
               IN  /\ r.ret
                   /\ r.task.state = "INTERRUPTED"
                   /\ r.task.turns_remaining = n
        /\ t.state = "ACTIVE" =>
             /\ t.turns_remaining >= 1
             /\ I.players[p].tasks["Task 1"].state = "INTERRUPTED"
             /\ I.players[p].tasks["Task 1"].turns_remaining = t.og_number_of_turns
             /\ ~I.players[p].movement_locked
             /\ I.players[p].active_task = None

\* A task started with MaxTurns turns and ticked at least once is Active
\* and is interrupted back to MaxTurns turns
C33_Witness ==
  \E p \in TaskHolders(players) :
    LET t == players[p].tasks["Task 1"]
    IN  /\ t.state = "ACTIVE"
        /\ t.og_number_of_turns = MaxTurns
        /\ t.turns_remaining < MaxTurns
        /\ interrupt_player_task(Cur, p, "discussion").players[p].tasks["Task 1"].turns_remaining
             = MaxTurns

C34_ChatOnlyInDiscussion ==
  \A c \in Actors :
    LET p == conns[c].pid
        R == Outcome(p, chat(Cur, p), FALSE)
    IN  IF phase # "discussion"
        THEN /\ \E m \in Frames(R) : m.type = "error" /\ m.conn = c
             /\ \A m \in Frames(R) : m.type # "chat_message"
        ELSE players[p].is_alive =>
               \A q \in OpenRecipients :
                 \E m \in Frames(R) :
                   m.type = "chat_message" /\ m.conn = players[q].websocket /\ m.ok

\* tally_votes has run: a player_ejected or no_ejection frame was sent
TallyRan(R) ==
  \E m \in Frames(R) : m.type \in {"player_ejected", "no_ejection"}

\* C35: a voting phase has exactly one tally outcome: when a vote has
\* completed the count and the tally has broadcast its outcome, the expiry
\* of the voting timer that ends the phase does not tally and broadcast
\* again; when no vote has done so, the expiry broadcasts the one outcome.
C35_OneTallyPerVoting ==
  (phase = "voting" /\ timers = <<"vote">>) =>
    /\ \A c \in Actors, x \in VoteTargets :
         LET p == conns[c].pid
             R1 == Outcome(p, vote(Cur, p, x), FALSE)
             F == end_voting_phase([R1 EXCEPT !.out = <<>>])
         IN  (~R1.exc /\ TallyRan(R1)) => ~TallyRan(F)
    /\ votes = EmptyMap => TallyRan(end_voting_phase(Cur))

\* C36: tally_votes completes normally on the votes map of every reachable
\* state: a single non-skip candidate it selects is a player of the roster,
\* no exception leaves it, and the votes map it leaves is empty.
C36_TallyCompletes ==
  LET R == tally_votes(Cur)
  IN  /\ SingleTop(votes) \subseteq DOMAIN players
      /\ ~R.exc
      /\ R.votes = EmptyMap

\* C37: death is permanent: a roster id whose player is dead is dead in the
\* next state too, if it is still in the roster.
C37_DeathIsPermanent ==
  [][\A p \in DOMAIN players \cap DOMAIN players' :
       ~players[p].is_alive => ~players'[p].is_alive]_vars

\* C38: while game_started is false, no player is an Impostor, every player
\* of the roster is alive, and bodies is empty.
C38_NothingBeforeStart ==
  ~game_started =>
    /\ Impostors(players) = {}
    /\ \A p \in DOMAIN players : players[p].is_alive
    /\ bodies = EmptyMap

\* ------------------------------------------- several broken connections --
\* The server with up to MaxBroken connections broken at the same time and
\* not yet noticed by their handle_connection, so that one broadcast can
\* meet several failed sends.
MaxBroken == 2

\* The connection of a peer breaks (its next send raises
\* ConnectionClosedError)
PeerBreak ==
  \E c \in DOMAIN conns :
    /\ conns[c].st = "open"
    /\ Cardinality({d \in DOMAIN conns : conns[d].st \in {"closed_ok", "closed_err"}})
         < MaxBroken
    /\ conns' = [conns EXCEPT ![c].st = "closed_err"]
    /\ frames < MaxFrames
    /\ frames' = frames + 1
    /\ UNCHANGED <<players, bodies, phase, votes, game_started, timers>>

BrokenNext == Next \/ PeerBreak

BrokenSpec == Init /\ [][BrokenNext]_vars

\* How many times the frame player_disconnected(p) was handed to
\* connection c during R
Announced(R, p, c) ==
  Cardinality({i \in DOMAIN R.out :
                 /\ R.out[i].type = "player_disconnected"
                 /\ R.out[i].info = <<p>>
                 /\ R.out[i].conn = c})

\* C39: a broadcast ends after finitely many sends: each nested
\* player_disconnected broadcast runs on a smaller roster.  Every recipient
\* whose send raised ConnectionClosedError is out of the roster afterwards
\* and was announced by player_disconnected once to every player that
\* stays, never twice to anyone and never to itself, and the dispatch from
\* the end of its own handle_connection then announces nothing more.
C39_BroadcastTerminates ==
  LET R == broadcast(Cur, "player_killed", <<>>)
      n == Cardinality(DOMAIN players)
  IN  /\ ~R.exc
      /\ 2 * Len(R.out) <= n * (n + 1)
      /\ DOMAIN R.players = DOMAIN players \ FailedRecipients
      /\ \A p \in DOMAIN players, q \in DOMAIN players :
           LET k == Announced(R, p, players[q].websocket)
           IN  /\ k <= 1
               /\ p \notin FailedRecipients \/ p = q => k = 0
               /\ p \in FailedRecipients /\ q \in DOMAIN R.players => k = 1
      /\ \A p \in FailedRecipients :
           on_player_disconnected([R EXCEPT !.out = <<>>], p).out = <<>>

\* Two recipients of the roster have broken connections and a third
\* player's connection is open
C39_Witness ==
  /\ Cardinality(FailedRecipients) >= 2
  /\ OpenRecipients # {}

====
